---- MODULE Spec2Model ----
(***************************************************************************)
(* A model of speedy_min.cpp: the scalar codec (encode / decode), the      *)
(* rank-to-digit mapper (ithPermutation), the layer unwinder               *)
(* (reverse_engineer_encoded_value), the loader (load_values_from_csv)     *)
(* and the driver (main).                                                  *)
(*                                                                         *)
(* C++ `int` is 32 bits wide.  Signed products wrap modulo 2^32 (what the  *)
(* documented build, g++ -o program program.cpp, produces).  Operations    *)
(* whose result the language leaves undefined and that differ between      *)
(* targets (integer division by zero, an out-of-range double -> int        *)
(* conversion) follow the variable `target`; a read of an uninitialized    *)
(* int and a dereference of end() are choices made in the action.          *)
(***************************************************************************)
EXTENDS Integers, Sequences, FiniteSets, TLC

----------------------------------------------------------------------------
(* Bounds of the model.                                                    *)

\* Largest selection size k handed to the mapper on its own.
MaxMapK == 34
\* Largest initial depth handed to the unwinder on its own.
MaxDepth == 4
\* Largest n and k the driver is started with.
MaxN == 2
MaxK == 2
\* Most lines in the CSV file.
MaxLines == 2
\* Frames the call stack holds before the process dies of stack overflow.
MaxFrames == 18
\* Largest depth D the codec is applied with (besides the overflow cases).
MaxD == 3
\* Longest time between two readings of the clock.
MaxTick == 1
\* Largest n and k of the runs of the driver on valid options.
MaxDriverN == 5
MaxDriverK == 5
\* The mapper on its own is started on every rank 0..MaxRank.
MaxRank == 23
\* Largest initial depth of the runs in which the clock's pace varies.
MaxClockDepth == 3

----------------------------------------------------------------------------
(* 32-bit int arithmetic.                                                  *)

INT_MAX == 2147483647
INT_MIN == -2147483647 - 1
Half == 65536

\* Variant of MulWrap with a fault: j is added, not multiplied.
AddWrap(a, j) == IF a > INT_MAX - j THEN a - Half * Half + j ELSE a + j

\* a * j in a 32-bit int, wrapping modulo 2^32 (a an int, 0 <= j < 2^15).
\* The product is taken on 16-bit halves so that no intermediate leaves
\* the 32-bit range.
MulWrap(a, j) ==
    LET lo  == (a % Half) * j
        hi  == ((a \div Half) * j + (lo \div Half)) % Half
        hs  == IF hi >= Half \div 2 THEN hi - Half ELSE hi
    IN  hs * Half + (lo % Half)

\* a / b of C++: the quotient truncated toward zero (b # 0, and not
\* INT_MIN / -1).
TruncDiv(a, b) ==
    IF b > 0
      THEN IF a >= 0 THEN a \div b ELSE -((-(a + 1)) \div b) - (IF (-(a + 1)) % b = b - 1 THEN 1 ELSE 0)
      ELSE IF b = INT_MIN
             THEN IF a = INT_MIN THEN 1 ELSE 0
             ELSE LET nb == -b
                  IN  IF a >= 0 THEN -(a \div nb)
                      ELSE ((-(a + 1)) \div nb) + (IF (-(a + 1)) % nb = nb - 1 THEN 1 ELSE 0)

\* a % b of C++: the remainder has the sign of the dividend.
CRem(a, b) == a - b * TruncDiv(a, b)

----------------------------------------------------------------------------
(* IEEE-754 binary64 (`double`).  A finite double is written               *)
(* [kind |-> "fin", neg |-> sign, bits |-> B]: its magnitude is the sum of *)
(* 2^p over the positions p in B, and B spans at most 53 positions (the    *)
(* significand).  Zero is B = {}.  Results are rounded to nearest, ties to *)
(* even, and are infinite from 2^1024 on; subnormals are not reached.      *)

\* Bits of the significand of a double, and the exponent at which a power
\* of two no longer is finite (DBL_MANT_DIG, DBL_MAX_EXP).
DBL_MANT_DIG == 53
DBL_MAX_EXP == 1024

Max(S) == CHOOSE x \in S : \A y \in S : y <= x
Min(S) == CHOOSE x \in S : \A y \in S : x <= y

Shift(B, d) == {p + d : p \in B}

\* Binary addition of two magnitudes: the bits that differ, plus the carries.
RECURSIVE AddBits(_, _)
AddBits(A, B) ==
    IF B = {} THEN A
    ELSE AddBits((A \ B) \cup (B \ A), Shift(A \cap B, 1))

\* Binary subtraction A - B of magnitudes, A >= B: the bits that differ,
\* minus the borrows.
RECURSIVE SubBits(_, _)
SubBits(A, B) ==
    IF B = {} THEN A
    ELSE SubBits((A \ B) \cup (B \ A), Shift(B \ A, 1))

\* A < B as magnitudes.
LessBits(A, B) ==
    LET D == (A \ B) \cup (B \ A)
    IN  D # {} /\ Max(D) \in B

\* The magnitude B rounded to 53 significant bits, to nearest, ties to even.
RoundBits(B) ==
    IF B = {} \/ Max(B) - Min(B) < DBL_MANT_DIG THEN B
    ELSE LET cut   == Max(B) - DBL_MANT_DIG + 1
             kept  == {p \in B : p >= cut}
             rest  == B \ kept
             up    == (cut - 1) \in rest /\ (rest # {cut - 1} \/ cut \in kept)
         IN  IF up THEN AddBits(kept, {cut}) ELSE kept

Inf(neg) == [kind |-> "inf", neg |-> neg, bits |-> {}]
NaN == [kind |-> "nan", neg |-> FALSE, bits |-> {}]
Zero == [kind |-> "fin", neg |-> FALSE, bits |-> {}]

\* The double nearest to the exact value (-1)^neg * sum of 2^p, p in B.
Fin(neg, B) ==
    LET R == RoundBits(B)
    IN  IF R = {} THEN Zero
        ELSE IF Max(R) >= DBL_MAX_EXP THEN Inf(neg)
        ELSE [kind |-> "fin", neg |-> neg, bits |-> R]

\* The binary digits of v >= 0, the lowest at position p.
RECURSIVE BitsOf(_, _)
BitsOf(v, p) ==
    IF v = 0 THEN {}
    ELSE (IF v % 2 = 1 THEN {p} ELSE {}) \cup BitsOf(v \div 2, p + 1)

\* The conversion int -> double (exact: an int has 32 bits).
FromInt(v) ==
    IF v >= 0 THEN Fin(FALSE, BitsOf(v, 0))
    ELSE Fin(TRUE, AddBits(BitsOf(-(v + 1), 0), {0}))

DNeg(x) == IF x.kind = "fin" /\ x.bits = {} THEN x ELSE [x EXCEPT !.neg = ~x.neg]

\* x + y.
DAdd(x, y) ==
    IF x.kind = "nan" \/ y.kind = "nan" THEN NaN
    ELSE IF x.kind = "inf" /\ y.kind = "inf"
      THEN IF x.neg = y.neg THEN x ELSE NaN
    ELSE IF x.kind = "inf" THEN x
    ELSE IF y.kind = "inf" THEN y
    ELSE IF x.neg = y.neg THEN Fin(x.neg, AddBits(x.bits, y.bits))
    ELSE IF LessBits(x.bits, y.bits) THEN Fin(y.neg, SubBits(y.bits, x.bits))
    ELSE Fin(x.neg, SubBits(x.bits, y.bits))

\* x - y.
DSub(x, y) == DAdd(x, DNeg(y))

\* The exact product of two magnitudes.
RECURSIVE MulBits(_, _)
MulBits(A, B) ==
    IF B = {} THEN {}
    ELSE LET p == Max(B)
         IN  AddBits(Shift(A, p), MulBits(A, B \ {p}))

\* x * y.
DMul(x, y) ==
    IF x.kind = "nan" \/ y.kind = "nan" THEN NaN
    ELSE IF x.kind = "inf" \/ y.kind = "inf"
      THEN IF (x.kind = "fin" /\ x.bits = {}) \/ (y.kind = "fin" /\ y.bits = {})
             THEN NaN
             ELSE Inf(x.neg # y.neg)
    ELSE Fin(x.neg # y.neg, MulBits(x.bits, y.bits))

\* x / y for y a power of two or infinite: the divisors pow(2, D) yields.
DDiv(x, y) ==
    IF x.kind = "nan" \/ y.kind = "nan" THEN NaN
    ELSE IF x.kind = "inf"
      THEN IF y.kind = "inf" THEN NaN ELSE Inf(x.neg # y.neg)
    ELSE IF y.kind = "inf" THEN Zero
    ELSE Fin(x.neg # y.neg, Shift(x.bits, -Max(y.bits)))

\* pow(2, D) for an int D >= 0.
pow_2(D) == IF D >= DBL_MAX_EXP THEN Inf(FALSE) ELSE Fin(FALSE, {D})

\* D / 2.0 for an int D.
HalfOf(D) == DDiv(FromInt(D), Fin(FALSE, {1}))

\* encode(Y, D) = pow(2, D) * (Y + D / 2.0).
encode(Y, D) == DMul(pow_2(D), DAdd(Y, HalfOf(D)))

\* Variant of decode with a fault: D is subtracted, not D / 2.0.
decodeWholeD(X, D) == DSub(DDiv(X, pow_2(D)), FromInt(D))

\* decode(X, D) = X / pow(2, D) - D / 2.0.
decode(X, D) == DSub(DDiv(X, pow_2(D)), HalfOf(D))

\* The integer sum of 2^p over p in B (B within 0..30).
RECURSIVE SumBits(_)
SumBits(B) ==
    IF B = {} THEN 0
    ELSE LET p == Min(B)
             RECURSIVE P2(_)
             P2(e) == IF e = 0 THEN 1 ELSE 2 * P2(e - 1)
         IN  P2(p) + SumBits(B \ {p})

----------------------------------------------------------------------------
(* The state of one run.                                                   *)

VARIABLES
    target,         \* the machine the build runs on
    entry,          \* the function the run was entered at
    pc,             \* where the run stands
    n, k,           \* --n and --k
    csv,            \* the lines of the CSV file, each a sequence of characters
    values,         \* load_values_from_csv: the vector being filled
    l,              \* main: int l
    smallest_value, \* main: smallest_value
    stack,          \* the frames of reverse_engineer_encoded_value, innermost last
    result,         \* the vector the innermost finished call returned
    timings, sizes, \* the telemetry log
    clock,          \* high_resolution_clock: the time of the last reading
    tick,           \* the time that passes from one reading of the clock to the next
    main_start,     \* main: start_time
    out,            \* what main wrote to std::cout
    codec,          \* the codec applied on its own: Y, D and the values computed
    rank,           \* the mapper called on its own: the rank i
    decodeSteps,    \* history: calls of decode made by the unwinder
    mapperCalls,    \* history: the arguments of every call of ithPermutation
    topCalls,       \* history: the arguments of every call main made of the unwinder
    logDepth        \* history: the layer_depth of the frame that appended each sample

vars == <<target, entry, pc, n, k, csv, values, l, smallest_value, stack, result,
          timings, sizes, clock, tick, main_start, out, codec, rank, decodeSteps,
          mapperCalls,
          topCalls, logDepth>>

\* x86-64 (idiv traps on a zero divisor; cvttsd2si yields INT_MIN for a
\* value no int holds) and AArch64 (sdiv yields 0; fcvtzs saturates, 0 for
\* a NaN).
Targets == {"x86_64", "aarch64"}

\* sizeof(std::vector<int>) on an LP64 target.
SizeofVector == 24

----------------------------------------------------------------------------
(* The rank-to-digit mapper.                                               *)

\* i / factor: whether the division traps, and the quotient when it does not.
DivFaults(b) == b = 0 /\ target = "x86_64"
Quot(a, b) == IF b = 0 THEN 0 ELSE TruncDiv(a, b)

\* The loop of ithPermutation from position j on, with `factor` and `result`
\* as the iterations before left them; `factors` records the value of
\* factor at each division.
RECURSIVE ithLoop(_, _, _, _, _, _)
ithLoop(kk, i, j, factor, res, factors) ==
    IF j > kk THEN [fault |-> FALSE, result |-> res, factors |-> factors]
    ELSE LET f == MulWrap(factor, j)
         IN  IF DivFaults(f)
               THEN [fault |-> TRUE, result |-> res, factors |-> Append(factors, f)]
               ELSE ithLoop(kk, i, j + 1, f,
                            Append(res, CRem(Quot(i, f), j + 1)),
                            Append(factors, f))

\* ithPermutation(n, k, i): the vector returned, or the fault (SIGFPE).
ithPermutation(nn, kk, i) == ithLoop(kk, i, 1, 1, <<>>, <<>>)

----------------------------------------------------------------------------
(* The layer unwinder.                                                     *)

\* static_cast<int>(x) of a double the int range does not hold.
CastOutOfRange(x) ==
    IF target = "x86_64" THEN INT_MIN
    ELSE IF x.kind = "nan" THEN 0
    ELSE IF x.neg THEN INT_MIN ELSE INT_MAX

\* static_cast<int>(x): x truncated toward zero.
ToInt(x) ==
    IF x.kind # "fin" THEN CastOutOfRange(x)
    ELSE LET whole == {p \in x.bits : p >= 0}
         IN  IF whole = {} THEN 0
             ELSE IF Max(whole) < 31
               THEN IF x.neg THEN -SumBits(whole) ELSE SumBits(whole)
             ELSE IF x.neg /\ whole = {31} THEN INT_MIN
             ELSE CastOutOfRange(x)

\* Variant of Pred with a fault: the depth goes down by 2.
PredByTwo(d) == IF d <= INT_MIN + 1 THEN INT_MAX ELSE d - 2

\* layer_depth - 1 in a 32-bit int.
Pred(d) == IF d = INT_MIN THEN INT_MAX ELSE d - 1

\* Variant of OriginalValue with a fault: the value is decoded with the
\* current depth as its layer.
OriginalValueAtDepth(value, layer_depth) ==
    LET decoded_value == decode(FromInt(value), layer_depth)
    IN  ToInt(DSub(decoded_value, HalfOf(layer_depth)))

\* original_value: the value the next frame is called with.
OriginalValue(value, layer_depth) ==
    LET decoded_value == decode(FromInt(value), 1)
    IN  ToInt(DSub(decoded_value, HalfOf(layer_depth)))

Frame(value, layer_depth, start_time) ==
    [value |-> value, layer_depth |-> layer_depth, start_time |-> start_time]

TopFrame == stack[Len(stack)]

\* high_resolution_clock::now(): the time read, `tick` after the reading
\* before.  A tick of 0 is a clock too coarse to tell two readings apart.
Now == clock + tick

driverVars == <<target, entry, n, k, csv, values, l, smallest_value, main_start,
                out, codec, rank, topCalls, tick>>

\* Variant of Terminal with a fault: the value is decoded once more before
\* the mapper is called on it.
TerminalDecodes ==
    /\ pc = "unwind"
    /\ TopFrame.layer_depth = 0
    /\ LET r == ithPermutation(n, k, OriginalValue(TopFrame.value, 0))
       IN  /\ mapperCalls' = Append(mapperCalls, <<n, k, OriginalValue(TopFrame.value, 0)>>)
           /\ IF r.fault
                THEN /\ pc' = "SIGFPE"
                     /\ UNCHANGED result
                ELSE /\ pc' = "return"
                     /\ result' = r.result
    /\ UNCHANGED <<driverVars, stack, timings, sizes, clock, decodeSteps, logDepth>>

\* layer_depth == 0: the mapper is called on the value carried in and its
\* vector returned.
Terminal ==
    /\ pc = "unwind"
    /\ TopFrame.layer_depth = 0
    /\ LET r == ithPermutation(n, k, TopFrame.value)
       IN  /\ mapperCalls' = Append(mapperCalls, <<n, k, TopFrame.value>>)
           /\ IF r.fault
                THEN /\ pc' = "SIGFPE"
                     /\ UNCHANGED result
                ELSE /\ pc' = "return"
                     /\ result' = r.result
    /\ UNCHANGED <<driverVars, stack, timings, sizes, clock, decodeSteps, logDepth>>

\* Variant of Descend with a fault: the sample is appended before the call
\* one layer down is made.
DescendLogsFirst ==
    /\ pc = "unwind"
    /\ TopFrame.layer_depth # 0
    /\ clock' = Now
    /\ decodeSteps' = decodeSteps + 1
    /\ timings' = Append(timings, 0)
    /\ sizes' = Append(sizes, SizeofVector)
    /\ logDepth' = Append(logDepth, TopFrame.layer_depth)
    /\ IF Len(stack) >= MaxFrames
         THEN /\ pc' = "SIGSEGV"
              /\ stack' = [stack EXCEPT ![Len(stack)].start_time = Now]
         ELSE /\ pc' = "unwind"
              /\ stack' = Append(
                     [stack EXCEPT ![Len(stack)].start_time = Now],
                     Frame(OriginalValue(TopFrame.value, TopFrame.layer_depth),
                           Pred(TopFrame.layer_depth), 0))
    /\ UNCHANGED <<driverVars, result, mapperCalls>>

\* layer_depth != 0: start_time is taken, the value decoded, and the
\* function calls itself one layer down.  The stack holds MaxFrames frames.
Descend ==
    /\ pc = "unwind"
    /\ TopFrame.layer_depth # 0
    /\ clock' = Now
    /\ decodeSteps' = decodeSteps + 1
    /\ IF Len(stack) >= MaxFrames
         THEN /\ pc' = "SIGSEGV"
              /\ stack' = [stack EXCEPT ![Len(stack)].start_time = Now]
         ELSE /\ pc' = "unwind"
              /\ stack' = Append(
                     [stack EXCEPT ![Len(stack)].start_time = Now],
                     Frame(OriginalValue(TopFrame.value, TopFrame.layer_depth),
                           Pred(TopFrame.layer_depth), 0))
    /\ UNCHANGED <<driverVars, result, timings, sizes, mapperCalls, logDepth>>

\* Variant of Return with a fault: the sample is inserted at the front of
\* the log.
ReturnPrepends ==
    /\ pc = "return"
    /\ Len(stack) >= 2
    /\ LET caller == stack[Len(stack) - 1]
       IN  /\ clock' = Now
           /\ timings' = <<Now - caller.start_time>> \o timings
           /\ sizes' = <<SizeofVector>> \o sizes
           /\ logDepth' = <<caller.layer_depth>> \o logDepth
    /\ stack' = SubSeq(stack, 1, Len(stack) - 1)
    /\ UNCHANGED <<driverVars, pc, result, decodeSteps, mapperCalls>>

\* Variant of Return with a fault: the time is measured from the start_time
\* of the frame that returned, not from the caller's.
ReturnTimesCallee ==
    /\ pc = "return"
    /\ Len(stack) >= 2
    /\ LET caller == stack[Len(stack) - 1]
       IN  /\ clock' = Now
           /\ timings' = Append(timings, Now - TopFrame.start_time)
           /\ sizes' = Append(sizes, SizeofVector)
           /\ logDepth' = Append(logDepth, caller.layer_depth)
    /\ stack' = SubSeq(stack, 1, Len(stack) - 1)
    /\ UNCHANGED <<driverVars, pc, result, decodeSteps, mapperCalls>>

\* The inner call has returned into the frame below: end_time is taken, the
\* sample appended, and the frame returns the same vector.
Return ==
    /\ pc = "return"
    /\ Len(stack) >= 2
    /\ LET caller == stack[Len(stack) - 1]
       IN  /\ clock' = Now
           /\ timings' = Append(timings, Now - caller.start_time)
           /\ sizes' = Append(sizes, SizeofVector)
           /\ logDepth' = Append(logDepth, caller.layer_depth)
    /\ stack' = SubSeq(stack, 1, Len(stack) - 1)
    /\ UNCHANGED <<driverVars, pc, result, decodeSteps, mapperCalls>>

\* The outermost call returns to whoever made it.
Leave ==
    /\ pc = "return"
    /\ Len(stack) = 1
    /\ stack' = <<>>
    /\ pc' = "returned"
    /\ UNCHANGED <<driverVars, result, timings, sizes, clock, decodeSteps,
                   mapperCalls, logDepth>>

----------------------------------------------------------------------------
(* The loader.                                                             *)

Digits == <<"0", "1", "2", "3", "4", "5", "6", "7", "8", "9">>
IsDigit(c) == \E d \in 1..10 : Digits[d] = c
DigitOf(c) == (CHOOSE d \in 1..10 : Digits[d] = c) - 1

\* The position of the first character of `line` from p on that is not
\* white space (Len(line) + 1 when there is none).
RECURSIVE SkipWs(_, _)
SkipWs(line, p) ==
    IF p <= Len(line) /\ line[p] = " " THEN SkipWs(line, p + 1) ELSE p

\* The digits of `line` from p on, accumulated onto acc with the sign neg;
\* a number no int holds becomes INT_MAX or INT_MIN.
RECURSIVE ReadDigits(_, _, _, _)
ReadDigits(line, p, acc, neg) ==
    IF p > Len(line) \/ ~IsDigit(line[p]) THEN acc
    ELSE LET d == DigitOf(line[p])
         IN  IF neg
               THEN IF acc < TruncDiv(INT_MIN + d, 10) THEN INT_MIN
                    ELSE ReadDigits(line, p + 1, acc * 10 - d, neg)
               ELSE IF acc > (INT_MAX - d) \div 10 THEN INT_MAX
                    ELSE ReadDigits(line, p + 1, acc * 10 + d, neg)

\* ss >> value on a stream holding `line`: whether value is written, and
\* what is written.  With nothing but white space left the extraction
\* stops before it writes; with no digit to read it writes 0.
Extract(line) ==
    LET p    == SkipWs(line, 1)
        sign == p <= Len(line) /\ line[p] \in {"-", "+"}
        q    == IF sign THEN p + 1 ELSE p
    IN  IF p > Len(line) THEN [written |-> FALSE, value |-> 0]
        ELSE IF q > Len(line) \/ ~IsDigit(line[q]) THEN [written |-> TRUE, value |-> 0]
        ELSE [written |-> TRUE, value |-> ReadDigits(line, q, 0, sign /\ line[p] = "-")]

\* The lines a file is made of.
Lines == { <<"4", "2">>, <<"-", "3">>, <<"7", "x">>, <<"a", "b">>, <<>>,
           <<"9", "9", "9", "9", "9", "9", "9", "9", "9", "9">> }

\* What an int that was never written may hold.
Garbage == {-5, 6}

RECURSIVE SeqsUpTo(_, _)
SeqsUpTo(S, len) ==
    IF len = 0 THEN {<<>>}
    ELSE LET shorter == SeqsUpTo(S, len - 1)
         IN  shorter \cup {Append(q, x) : q \in shorter, x \in S}

unwindVars == <<stack, result, timings, sizes, decodeSteps, mapperCalls, logDepth>>

\* One iteration of the loop of load_values_from_csv: the next line is
\* read, an int extracted from it and pushed.
ReadLine ==
    /\ pc = "load"
    /\ Len(values) < Len(csv)
    /\ LET e == Extract(csv[Len(values) + 1])
       IN  \E g \in (IF e.written THEN {e.value} ELSE Garbage) :
             values' = Append(values, g)
    /\ UNCHANGED <<target, entry, pc, n, k, csv, l, smallest_value, main_start, out,
                   codec, rank, topCalls, clock, tick, unwindVars>>

\* The exponent e of nn = 2^e, or -1 when nn >= 1 is no power of two.
RECURSIVE Exponent(_)
Exponent(nn) ==
    IF nn = 1 THEN 0
    ELSE IF nn % 2 = 1 THEN -1
    ELSE LET e == Exponent(nn \div 2) IN IF e = -1 THEN -1 ELSE e + 1

\* The double std::log2 returns for the ints 3..10 that are no power of
\* two: the exponent of its leading bit, the upper 27 and the lower 26 bits
\* of its significand (0x3FF95C01A39FBD68 for 3, and so on).
Log2Table(nn) ==
    CASE nn = 3  -> <<0, 106365032, 60800360>>
      [] nn = 5  -> <<1, 77910978, 24748913>>
      [] nn = 6  -> <<1, 86736948, 30400180>>
      [] nn = 7  -> <<1, 94199199, 55837741>>
      [] nn = 9  -> <<1, 106365032, 60800360>>
      [] nn = 10 -> <<1, 111465410, 24748913>>

\* std::log2(n) for an int n: -infinity for 0, a NaN for a negative n, exact
\* for a power of two.
log2(nn) ==
    IF nn < 0 THEN NaN
    ELSE IF nn = 0 THEN Inf(TRUE)
    ELSE IF Exponent(nn) # -1 THEN FromInt(Exponent(nn))
    ELSE LET t == Log2Table(nn)
         IN  Fin(FALSE, Shift(BitsOf(t[2], 26) \cup BitsOf(t[3], 0), t[1] - 52))

\* Variant of ceil with a fault: the value is rounded down.
floor(x) ==
    IF x.kind # "fin" \/ \A p \in x.bits : p >= 0 THEN x
    ELSE LET whole == {p \in x.bits : p >= 0}
         IN  IF x.neg THEN Fin(TRUE, AddBits(whole, {0})) ELSE Fin(FALSE, whole)

\* std::ceil(x): the least whole number not below x.
ceil(x) ==
    IF x.kind # "fin" \/ \A p \in x.bits : p >= 0 THEN x
    ELSE LET whole == {p \in x.bits : p >= 0}
         IN  IF x.neg THEN Fin(TRUE, whole) ELSE Fin(FALSE, AddBits(whole, {0}))

\* static_cast<int>(std::ceil(k * std::log2(n))).
LayerCount(nn, kk) == ToInt(ceil(DMul(FromInt(kk), log2(nn))))

\* main, from the return of the loader to start_time.
ComputeL ==
    /\ pc = "load"
    /\ Len(values) = Len(csv)
    /\ l' = LayerCount(n, k)
    /\ timings' = <<>>
    /\ sizes' = <<>>
    /\ clock' = Now
    /\ main_start' = Now
    /\ pc' = "min"
    /\ UNCHANGED <<target, entry, n, k, csv, values, smallest_value, out, codec, rank,
                   topCalls, tick, stack, result, decodeSteps, mapperCalls, logDepth>>

\* Variant of MinElement with a fault: the greatest element is taken.
MaxElement(v) == Max({v[x] : x \in 1..Len(v)})

\* The least element of a non-empty vector.
MinElement(v) == Min({v[x] : x \in 1..Len(v)})

\* *std::min_element(values.begin(), values.end()).  On an empty vector this
\* dereferences end(): the read faults or yields whatever lies there.
SelectMin ==
    /\ pc = "min"
    /\ IF values # <<>>
         THEN /\ smallest_value' = MinElement(values)
              /\ pc' = "call"
         ELSE \/ /\ pc' = "SIGSEGV"
                 /\ UNCHANGED smallest_value
              \/ /\ pc' = "call"
                 /\ smallest_value' \in Garbage
    /\ UNCHANGED <<target, entry, n, k, csv, values, l, main_start, out, codec, rank,
                   topCalls, clock, tick, unwindVars>>

\* reverse_engineer_encoded_value(smallest_value, l, n, k, timings, sizes).
CallUnwinder ==
    /\ pc = "call"
    /\ topCalls' = Append(topCalls, <<smallest_value, l>>)
    /\ stack' = <<Frame(smallest_value, l, 0)>>
    /\ pc' = "unwind"
    /\ UNCHANGED <<target, entry, n, k, csv, values, l, smallest_value, main_start, out,
                   codec, rank, clock, tick, result, timings, sizes, decodeSteps,
                   mapperCalls, logDepth>>

\* main, from end_time to the two lines written.
Report ==
    /\ pc = "returned"
    /\ entry = "main"
    /\ clock' = Now
    /\ out' = <<smallest_value, Now - main_start>>
    /\ pc' = "done"
    /\ UNCHANGED <<target, entry, n, k, csv, values, l, smallest_value, main_start,
                   codec, rank, topCalls, tick, unwindVars>>

----------------------------------------------------------------------------
(* The program: main on a file of at most MaxLines lines.                  *)

Idle ==
    /\ values = <<>> /\ l = 0 /\ smallest_value = 0
    /\ stack = <<>> /\ result = <<>> /\ timings = <<>> /\ sizes = <<>>
    /\ clock = 0 /\ main_start = 0 /\ out = <<>>
    /\ decodeSteps = 0 /\ mapperCalls = <<>> /\ topCalls = <<>> /\ logDepth = <<>>

NoCodec == [Y |-> Zero, D |-> 0, X |-> Zero, Z |-> Zero]

Init ==
    /\ target \in Targets
    /\ entry = "main"
    /\ pc = "load"
    /\ \/ n \in -1..MaxN /\ k \in -1..MaxK
       \/ n = 1 /\ k = MaxMapK
    /\ csv \in SeqsUpTo(Lines, MaxLines)
    /\ codec = NoCodec
    /\ rank = 0
    /\ tick = 1
    /\ Idle

Unwind == Terminal \/ Descend \/ Return \/ Leave

Next == ReadLine \/ ComputeL \/ SelectMin \/ CallUnwinder \/ Unwind \/ Report

Spec == Init /\ [][Next]_vars

\* The same runs with the progress a running process makes: a step that
\* can be taken is taken.
FairSpec == Spec /\ WF_vars(Next)

----------------------------------------------------------------------------
(* The program started with valid options: n in 1..MaxDriverN and k in    *)
(* 1..MaxDriverK, or n = 2 and k = 16, on a file of at most one line.      *)

DriverInit ==
    /\ target \in Targets
    /\ entry = "main"
    /\ pc = "load"
    /\ \/ n \in 1..MaxDriverN /\ k \in 1..MaxDriverK
       \/ n = 2 /\ k = 16
    /\ csv \in SeqsUpTo({<<"4", "2">>, <<"-", "3">>}, 1)
    /\ codec = NoCodec
    /\ rank = 0
    /\ tick = 1
    /\ Idle

DriverSpec == DriverInit /\ [][Next]_vars


----------------------------------------------------------------------------
(* The unwinder called on its own, with any initial depth 0..MaxDepth.     *)

\* Values the unwinder and the mapper are started on.
Ranks == {-37, 0, 1, 37, 288522240, INT_MAX}

UnwindInit ==
    /\ target \in Targets
    /\ entry = "unwinder"
    /\ pc = "unwind"
    /\ n \in 1..MaxN
    /\ k \in 1..MaxK
    /\ csv = <<>>
    /\ codec = NoCodec
    /\ rank = 0
    /\ tick \in 0..MaxTick
    /\ values = <<>> /\ l = 0 /\ smallest_value = 0
    /\ result = <<>> /\ timings = <<>> /\ sizes = <<>>
    /\ clock = 0 /\ main_start = 0 /\ out = <<>>
    /\ decodeSteps = 0 /\ mapperCalls = <<>> /\ logDepth = <<>>
    /\ \E v \in Ranks \cup {INT_MIN}, L \in 0..MaxDepth :
         /\ stack = <<Frame(v, L, 0)>>
         /\ topCalls = <<<<v, L>>>>

UnwindSpec == UnwindInit /\ [][Unwind]_vars

----------------------------------------------------------------------------
(* The unwinder called on its own under a monotonic clock of any pace: the *)
(* time from one reading to the next is any of 0..MaxTick.                 *)

ClockInit ==
    /\ target \in Targets
    /\ entry = "unwinder"
    /\ pc = "unwind"
    /\ n = 2
    /\ k = 2
    /\ csv = <<>>
    /\ codec = NoCodec
    /\ rank = 0
    /\ tick \in 0..MaxTick
    /\ values = <<>> /\ l = 0 /\ smallest_value = 0
    /\ result = <<>> /\ timings = <<>> /\ sizes = <<>>
    /\ clock = 0 /\ main_start = 0 /\ out = <<>>
    /\ decodeSteps = 0 /\ mapperCalls = <<>> /\ logDepth = <<>>
    /\ \E v \in {0, 37}, L \in 0..MaxClockDepth :
         /\ stack = <<Frame(v, L, 0)>>
         /\ topCalls = <<<<v, L>>>>

\* The clock changes its pace while the unwinder runs.
Elapse ==
    /\ pc \in {"unwind", "return"}
    /\ tick' \in 0..MaxTick
    /\ tick' # tick
    /\ UNCHANGED <<target, entry, pc, n, k, csv, values, l, smallest_value,
                   main_start, out, codec, rank, topCalls, clock, unwindVars>>

ClockSpec == ClockInit /\ [][Unwind \/ Elapse]_vars

----------------------------------------------------------------------------
(* The mapper called on its own.                                           *)

\* j! for j in 1..12, the factorials an int holds.
RECURSIVE Factorial(_)
Factorial(j) == IF j = 0 THEN 1 ELSE j * Factorial(j - 1)

\* Ranks the mapper is started on: those of Ranks, every rank up to MaxRank,
\* and the greatest rank (j + 1)! - 1 of j digits, j in 1..11.
MapperRanks == Ranks \cup 0..MaxRank \cup {Factorial(j + 1) - 1 : j \in 1..11}

MapperInit ==
    /\ target \in Targets
    /\ entry = "mapper"
    /\ pc = "mapper"
    /\ k \in 1..MaxMapK
    /\ n \in {k, k + 1, 10}
    /\ rank \in MapperRanks
    /\ csv = <<>>
    /\ codec = NoCodec
    /\ tick = 0
    /\ Idle

\* ithPermutation(n, k, rank).
MapperCall ==
    /\ pc = "mapper"
    /\ LET r == ithPermutation(n, k, rank)
       IN  /\ mapperCalls' = Append(mapperCalls, <<n, k, rank>>)
           /\ IF r.fault
                THEN /\ pc' = "SIGFPE"
                     /\ UNCHANGED result
                ELSE /\ pc' = "returned"
                     /\ result' = r.result
    /\ UNCHANGED <<driverVars, stack, timings, sizes, clock, decodeSteps, logDepth>>

MapperSpec == MapperInit /\ [][MapperCall]_vars

----------------------------------------------------------------------------
(* The codec applied on its own: X = encode(Y, D), then Z = decode(X, D).  *)

\* The double nearest to 0.1 (0x3FB999999999999A).
Tenth == Fin(FALSE, {-4 - 4 * x : x \in 0..12} \cup {-5 - 4 * x : x \in 0..12} \cup {-55})

\* 2^-60.
Tiny == Fin(FALSE, {-60})

CodecYs == {FromInt(v) : v \in {INT_MIN, -37, 0, 1, 37, INT_MAX}} \cup {Tenth, Tiny}

\* Depths: the small ones, and those around which encode(Y, D) stops being
\* finite for an int Y.
CodecDs == 0..MaxD \cup {DBL_MAX_EXP - 32, DBL_MAX_EXP - 31, DBL_MAX_EXP}

CodecInit ==
    /\ target \in Targets
    /\ entry = "codec"
    /\ pc = "encode"
    /\ n = 1 /\ k = 1
    /\ csv = <<>>
    /\ rank = 0
    /\ tick = 0
    /\ \E Y \in CodecYs, D \in CodecDs : codec = [Y |-> Y, D |-> D, X |-> Zero, Z |-> Zero]
    /\ Idle

codecFrame == <<target, entry, n, k, csv, values, l, smallest_value, main_start, out,
                rank, topCalls, tick, clock, stack, result, timings, sizes,
                decodeSteps, mapperCalls, logDepth>>

Encode ==
    /\ pc = "encode"
    /\ codec' = [codec EXCEPT !.X = encode(codec.Y, codec.D)]
    /\ pc' = "decode"
    /\ UNCHANGED codecFrame

Decode ==
    /\ pc = "decode"
    /\ codec' = [codec EXCEPT !.Z = decode(codec.X, codec.D)]
    /\ pc' = "decoded"
    /\ UNCHANGED codecFrame

CodecSpec == CodecInit /\ [][Encode \/ Decode]_vars

----------------------------------------------------------------------------
(* Properties.                                                             *)

\* The arguments of the call the run was entered with (UnwindSpec).
InitialValue == topCalls[1][1]
InitialDepth == topCalls[1][2]

\* C1: for positive n, k and a rank i >= 0, the sequence ithPermutation
\* returns has length k and its digit at position j lies in 0..j.
\* (MapperSpec.  Fails from k = 17 on: 17! wraps to a negative int.)
C1_DigitsInRange ==
    (entry = "mapper" /\ pc = "returned" /\ rank >= 0) =>
        /\ Len(result) = k
        /\ \A j \in 1..k : result[j] \in 0..j

\* C2: one call of the unwinder with initial depth L makes exactly L decode
\* steps, then calls the mapper exactly once, and when it returns timings
\* and sizes hold exactly L entries each.  (UnwindSpec.)
C2_ExactlyLSteps ==
    /\ Len(mapperCalls) <= 1
    /\ decodeSteps <= InitialDepth
    /\ Len(mapperCalls) = 1 => decodeSteps = InitialDepth
    /\ pc = "returned" =>
         /\ decodeSteps = InitialDepth
         /\ Len(mapperCalls) = 1
         /\ Len(timings) = InitialDepth
         /\ Len(sizes) = InitialDepth

C2_Witness ==
    /\ pc = "returned"
    /\ InitialDepth >= 2
    /\ decodeSteps = InitialDepth
    /\ Len(timings) = InitialDepth

\* C3: a call of the unwinder with initial depth 0 returns what the mapper
\* returns on the initial value, makes no decode step, reads no clock and
\* appends nothing to the log.  (UnwindSpec.)
C3_DepthZeroIsMapper ==
    (InitialDepth = 0 /\ pc = "returned") =>
        /\ result = ithPermutation(n, k, InitialValue).result
        /\ mapperCalls = << <<n, k, InitialValue>> >>
        /\ decodeSteps = 0
        /\ clock = 0
        /\ timings = <<>>
        /\ sizes = <<>>

C3_Witness ==
    /\ InitialDepth = 0
    /\ pc = "returned"
    /\ InitialValue = 37
    /\ k = 2
    /\ result = <<1, 0>>

\* C4: with n <= 0 or k <= 0 the program stops before any computation: the
\* unwinder is not called, no decode step runs, the mapper is not called
\* and no sample is appended.  (Spec.  main validates nothing.)
C4_InvalidArgumentRejected ==
    (n <= 0 \/ k <= 0) =>
        /\ topCalls = <<>>
        /\ decodeSteps = 0
        /\ mapperCalls = <<>>
        /\ timings = <<>>

\* C5: with an empty input sequence the driver stops with EmptyInput: it
\* neither selects a minimum and calls the unwinder nor dies of a signal.
\* (Spec.  main dereferences end().)
C5_EmptyInputRejected ==
    csv = <<>> => pc \in {"load", "min"}

\* A line that holds a token, and one whose token is an integer an int holds.
HoldsToken(line) == SkipWs(line, 1) <= Len(line)
RECURSIVE AllDigits(_, _)
AllDigits(line, p) == p > Len(line) \/ (IsDigit(line[p]) /\ AllDigits(line, p + 1))
IsInteger(line) ==
    LET p == SkipWs(line, 1)
        q == IF p <= Len(line) /\ line[p] \in {"-", "+"} THEN p + 1 ELSE p
    IN  /\ q <= Len(line)
        /\ AllDigits(line, q)
        /\ Len(line) - q + 1 <= 9

\* C6: a line that holds a malformed token never adds a value to the
\* candidate list.  (Spec.  The loader pushes what the failed extraction
\* left: 0, the digits read so far, or INT_MAX.)
C6_MalformedRejected ==
    \A p \in 1..Len(values) : HoldsToken(csv[p]) => IsInteger(csv[p])

\* C7 as stated: decode(encode(Y, D), D) = Y for every double Y and every
\* int D >= 0.  (CodecSpec.  Fails when Y + D / 2.0 is rounded and when
\* encode(Y, D) is infinite.)
C7_RoundTrip ==
    pc = "decoded" => codec.Z = codec.Y

\* Y is the double of an int.
IsInt32(Y) ==
    /\ Y.kind = "fin"
    /\ \/ Y.bits \subseteq 0..30
       \/ Y.neg /\ Y.bits = {31}

\* C7, amended: decode(encode(Y, D), D) = Y for every Y that is the double
\* of a 32-bit int and every D in 0..992 (DBL_MAX_EXP - 32): there every
\* intermediate is exact and finite.  (CodecSpec.)
C7_RoundTripInt ==
    (pc = "decoded" /\ IsInt32(codec.Y) /\ codec.D <= DBL_MAX_EXP - 32) =>
        codec.Z = codec.Y

C7_Witness ==
    /\ pc = "decoded"
    /\ codec.Y = FromInt(37)
    /\ codec.D = 3
    /\ codec.X = FromInt(308)
    /\ codec.Z = FromInt(37)

\* C8: for a non-empty input sequence the value the driver reports is the
\* minimum of the sequence, and the driver calls the unwinder exactly once,
\* on that minimum, with depth l.  (Spec.)
C8_ReportsMinimum ==
    (values # <<>> /\ pc \notin {"load", "min"}) =>
        /\ \E p \in 1..Len(values) : values[p] = smallest_value
        /\ \A p \in 1..Len(values) : smallest_value <= values[p]
        /\ topCalls = IF pc = "call" THEN <<>> ELSE << <<smallest_value, l>> >>
        /\ pc = "done" => out[1] = smallest_value

C8_Witness ==
    /\ pc = "done"
    /\ Len(values) = 2
    /\ values[1] > values[2]
    /\ out[1] = values[2]
    /\ topCalls = << <<values[2], l>> >>

\* C9: the sample at position p of the log was appended by the step at
\* depth p: the step at depth 1 logs first, the outermost last.
\* (UnwindSpec.)
C9_LoggedInCompletionOrder ==
    /\ Len(logDepth) = Len(timings)
    /\ Len(logDepth) = Len(sizes)
    /\ \A p \in 1..Len(logDepth) : logDepth[p] = p
    /\ pc = "returned" => Len(logDepth) = InitialDepth

C9_Witness ==
    /\ pc = "returned"
    /\ InitialDepth >= 3
    /\ logDepth[1] = 1
    /\ logDepth[InitialDepth] = InitialDepth

IsPrefix(s1, s2) ==
    /\ Len(s1) <= Len(s2)
    /\ \A p \in 1..Len(s1) : s2[p] = s1[p]

\* C10: the log is append-only: in every step the entries timings and sizes
\* hold keep their position and value, and neither gets shorter.
\* (UnwindSpec.)
C10_AppendOnly ==
    [][IsPrefix(timings, timings') /\ IsPrefix(sizes, sizes')]_vars

C10_Witness ==
    /\ pc = "return"
    /\ Len(stack) >= 2
    /\ Len(timings) >= 2
    /\ tick = 1

\* nn^kk as a magnitude (nn >= 1, kk >= 0).
RECURSIVE PowBits(_, _)
PowBits(nn, kk) ==
    IF kk = 0 THEN {0} ELSE MulBits(BitsOf(nn, 0), PowBits(nn, kk - 1))

\* C11: for positive n and k the depth l the driver computes and passes to
\* the unwinder is the least L >= 0 with 2^L >= n^k; the mapper is called
\* after l decode steps with (n, k, the value carried to depth 0); n = 2,
\* k = 16 gives l = 16.  (DriverSpec.)
C11_InitialDepth ==
    /\ pc # "load" =>
         /\ l >= 0
         /\ ~LessBits({l}, PowBits(n, k))
         /\ l = 0 \/ LessBits({l - 1}, PowBits(n, k))
         /\ (n = 2 /\ k = 16) => l = 16
    /\ topCalls # <<>> => topCalls = << <<smallest_value, l>> >>
    /\ mapperCalls # <<>> =>
         /\ decodeSteps = l
         /\ Len(mapperCalls) = 1
         /\ mapperCalls[1][1] = n
         /\ mapperCalls[1][2] = k
         /\ Len(stack) = l + 1 =>
              /\ TopFrame.layer_depth = 0
              /\ mapperCalls[1][3] = TopFrame.value

C11_Witness ==
    /\ pc = "return"
    /\ n = 2 /\ k = 16 /\ l = 16
    /\ Len(stack) = 17
    /\ decodeSteps = 16
    /\ mapperCalls = << <<2, 16, TopFrame.value>> >>

\* j! as a magnitude.
RECURSIVE FactBits(_)
FactBits(j) == IF j = 0 THEN {0} ELSE MulBits(BitsOf(j, 0), FactBits(j - 1))

\* C12: for k >= 1 and a rank i >= 0, factor is j! when position j is
\* processed and the digit at position j is (i div j!) mod (j + 1), which
\* is 0 once j! exceeds i.  (MapperSpec.  Fails from k = 13 on: 13! is not
\* an int and factor holds 13! mod 2^32.)
C12_FactorIsFactorial ==
    (entry = "mapper" /\ pc = "returned" /\ rank >= 0) =>
        LET factors == ithPermutation(n, k, rank).factors
        IN  \A j \in 1..k :
              /\ factors[j] > 0
              /\ BitsOf(factors[j], 0) = FactBits(j)
              /\ result[j] = (rank \div factors[j]) % (j + 1)

\* The scenario of the specification: n = 10, k = 3, i = 37.
C12_Witness ==
    /\ entry = "mapper" /\ pc = "returned"
    /\ n = 10 /\ k = 3 /\ rank = 37
    /\ ithPermutation(n, k, rank).factors = <<1, 2, 6>>
    /\ result = <<1, 0, 2>>

\* (v - 1 - d) / 2 truncated toward zero, for ints v and d >= 1, taken on
\* the halves of v and d + 1 so that no intermediate leaves the int range.
TruncHalf(v, d) ==
    LET whole == (v \div 2) - ((d + 1) \div 2)
        odd   == (v % 2) - ((d + 1) % 2)
    IN  IF odd = 1 /\ whole < 0 THEN whole + 1
        ELSE IF odd = -1 /\ whole > 0 THEN whole - 1
        ELSE whole

C14_RankStaysNonNegative ==
    InitialValue >= 0 =>
        /\ mapperCalls # <<>> => mapperCalls[1][3] >= 0
        /\ pc = "returned" =>
             /\ Len(result) = k
             /\ \A j \in 1..k : result[j] \in 0..j

\* A run on a value >= 0 that returns a negative digit.
C14_Witness ==
    /\ pc = "returned"
    /\ topCalls = << <<0, 1>> >>
    /\ n = 2 /\ k = 2
    /\ mapperCalls = << <<2, 2, -1>> >>
    /\ result = <<-1, 0>>

\* C15: in a run of the unwinder started by the driver every frame holds a
\* depth >= 0, each frame called holds the depth of its caller less 1, and
\* the run eventually returns to the driver (having reached depth 0 and
\* called the mapper).  (FairSpec.  For n = 0, or k < 0 and n >= 2, the
\* driver computes a negative depth, which never reaches 0; for k >= 34
\* the mapper called at depth 0 divides by zero.)
C15_ReachesDepthZero ==
    /\ [](\A p \in 1..Len(stack) :
            /\ stack[p].layer_depth >= 0
            /\ p > 1 => stack[p].layer_depth = stack[p - 1].layer_depth - 1)
    /\ (pc = "unwind") ~> (pc = "returned" /\ Len(mapperCalls) = 1)

\* A run on valid options in which the unwinder reaches depth 0, calls the
\* mapper and never returns.
C15_Witness ==
    /\ pc = "SIGFPE"
    /\ n = 1 /\ k = 34 /\ l = 0
    /\ values = <<42>>
    /\ stack = <<Frame(42, 0, 0)>>
    /\ mapperCalls = << <<1, 34, 42>> >>

\* C16: for every k >= 1 and every rank the value of factor is non-zero at
\* every division i / factor, and the mapper returns a vector.
\* (MapperSpec.  34! is a multiple of 2^32: at position 34 factor is 0.)
C16_FactorNeverZero ==
    (entry = "mapper" /\ mapperCalls # <<>>) =>
        /\ pc = "returned"
        /\ \A j \in 1..k : ithPermutation(n, k, rank).factors[j] # 0

\* The mapper dies of the division at position 34.
C16_Witness ==
    /\ entry = "mapper"
    /\ pc = "SIGFPE"
    /\ k = 34 /\ rank = 37
    /\ LET factors == ithPermutation(n, k, rank).factors
       IN  /\ Len(factors) = 34
           /\ factors[33] = INT_MIN
           /\ factors[34] = 0

\* The rank the digits d denote: the sum of d[j] * j! over the positions j.
RECURSIVE RankOf(_, _)
RankOf(d, j) == IF j = 0 THEN 0 ELSE d[j] * Factorial(j) + RankOf(d, j - 1)

\* C17: for k <= 11, where (k + 1)! is an int, and a rank i with
\* 0 <= i < (k + 1)!, the digits returned denote i, and no other rank below
\* (k + 1)! has the same digits.  (MapperSpec.)
C17_RankRecoverable ==
    (entry = "mapper" /\ pc = "returned" /\ k <= 11
        /\ rank >= 0 /\ rank < Factorial(k + 1)) =>
        /\ Len(result) = k
        /\ RankOf(result, k) = rank
        /\ \A i \in MapperRanks :
              (i >= 0 /\ i < Factorial(k + 1) /\ i # rank) =>
                  ithPermutation(n, k, i).result # result

C17_Witness ==
    /\ entry = "mapper" /\ pc = "returned"
    /\ k = 3 /\ rank = 23
    /\ result = <<1, 2, 3>>
    /\ RankOf(result, 3) = 23

\* C18: under a monotonic clock the elapsed times of the log do not
\* decrease in log order, and the frames took their start_time in the order
\* they were called, so that each measured interval encloses the next
\* inner one.  (ClockSpec.)
C18_TimingsNonDecreasing ==
    /\ \A p \in 1..(Len(timings) - 1) : timings[p] <= timings[p + 1]
    /\ \A p \in 1..(Len(stack) - 2) :
          /\ stack[p].start_time <= stack[p + 1].start_time
          /\ stack[p + 1].start_time <= clock
    /\ \A p \in 1..Len(timings) : timings[p] >= 0

\* A log whose times are equal, then grow.
C18_Witness ==
    /\ pc = "returned"
    /\ InitialDepth = 3
    /\ timings[1] = timings[2]
    /\ timings[2] < timings[3]

====
